---- MODULE Spec2Model ----
(***************************************************************************)
(* Model of fluster's orchestrator (class Fluster, fluster/fluster.py):    *)
(* catalogue loading, selection resolution and the (suite, decoder) run    *)
(* loop of run_test_suites.                                                *)
(*                                                                         *)
(* Names are sequences of characters, so that str.lower(), list membership *)
(* and substring containment are different things in the model.            *)
(***************************************************************************)
EXTENDS Naturals, Sequences, FiniteSets

VARIABLES
    files,          \* the directory walked by os.walk(self.test_suites_dir), in walk order
    decoders,       \* self.decoders (the DECODERS registry)
    test_suites,    \* self.test_suites
    cached,         \* whether lru_cache holds an entry for self._load_test_suites()
    scans,          \* number of times the definitions directory was walked
    load_errors,    \* indices of files reported by 'Error loading test suite'
    pc,             \* "idle", "loop", "returned", "raised", "exited"
    ctx,            \* the Context handed to run_test_suites
    si,             \* position of the outer loop in ctx.test_suites
    di,             \* position of the inner loop in ctx.decoders
    results,        \* local 'results' of the current suite
    error,          \* local 'error'
    raised,         \* the exception run_test_suites raised, if any
    exit_status,    \* status passed to sys.exit, 0 while sys.exit was not called
    invoked,        \* log of the calls to TestSuite.run made by the current call
    summaries,      \* log of the calls to _generate_summary made by the current call
    printed,        \* suites printed by the current list_test_suites call
    downloaded,     \* suites downloaded by the current download_test_suites call
    request,        \* the Context as the caller handed it to run_test_suites
    any_failed,     \* whether a run of the current call returned a vector with errors
    calls           \* number of calls made on the instance, where a specification counts them

vars == <<files, decoders, test_suites, cached, scans, load_errors, pc, ctx, si, di,
          results, error, raised, exit_status, invoked, summaries, printed, downloaded,
          request, any_failed, calls>>

----------------------------------------------------------------------------
(* Bounds of the model *)

MaxFiles == 2
MaxCalls == 2

----------------------------------------------------------------------------
(* Strings *)

\* str.lower() on one character of the model's alphabet
LowerChar(c) ==
    CASE c = "A" -> "a"
      [] c = "B" -> "b"
      [] c = "X" -> "x"
      [] c = "Y" -> "y"
      [] c = "V" -> "v"
      [] OTHER -> c

\* str.lower()
Lower(s) == [i \in DOMAIN s |-> LowerChar(s[i])]

\* [x.lower() for x in l]
LowerAll(l) == [i \in DOMAIN l |-> Lower(l[i])]

\* x in l, for a list l
InList(x, l) == \E i \in DOMAIN l : l[i] = x

\* a in b, for two strings: a occurs in b as a contiguous substring
IsSubstring(a, b) ==
    \E k \in 0..Len(b) : k + Len(a) <= Len(b) /\ \A i \in DOMAIN a : b[k + i] = a[i]

\* all sequences over S of length at most n
SeqUpTo(S, n) == UNION {[1..k -> S] : k \in 0..n}

----------------------------------------------------------------------------
(* The catalogue on disk and the decoder registry *)

\* The vectors' error lists a decoder run can leave: none, or one message
ErrorLists == {<<>>, <<"error">>}

\* Well-formed suite definitions that may lie under test_suites_dir
SuiteDefs ==
    { [ext |-> "json", ok |-> TRUE, name |-> <<"A">>, codec |-> "H264",
       vectors |-> << <<"V">>, <<"w">> >>],
      [ext |-> "json", ok |-> TRUE, name |-> <<"a", "b">>, codec |-> "VP8",
       vectors |-> << <<"w">> >>] }

\* A .json file that TestSuite.from_json_file rejects with an exception
Malformed ==
    [ext |-> "json", ok |-> FALSE, name |-> <<>>, codec |-> "H264", vectors |-> <<>>]

\* A file that is no .json file
OtherFile ==
    [ext |-> "txt", ok |-> FALSE, name |-> <<>>, codec |-> "H264", vectors |-> <<>>]

FileDefs == SuiteDefs \cup {Malformed, OtherFile}

\* The decoders registered in DECODERS when all decoder modules are imported
DECODERS ==
    << [name |-> <<"Y">>, codec |-> "VP8"],
       [name |-> <<"X">>, codec |-> "H264"],
       [name |-> <<"x", "y">>, codec |-> "H264"] >>

\* Registries: the decoders registered so far, none to all
Registries == {SubSeq(DECODERS, 1, n) : n \in 0..Len(DECODERS)}

----------------------------------------------------------------------------
(* Values of a Context attribute that holds None, a list of names, or, after
   _normalize_context, a list of objects *)

None == [kind |-> "none", v |-> <<>>]
Names(l) == [kind |-> "names", v |-> l]
Objs(l) == [kind |-> "objs", v |-> l]

\* Python truth value of such an attribute: None and [] are false
Truthy(a) == a.kind # "none" /\ a.v # <<>>

NoError == [kind |-> "none", name |-> "", arg |-> <<>>]

----------------------------------------------------------------------------
(* Catalogue Loader *)

\* TestSuite.from_json_file on the i-th file of the walk: the parsed suite.
\* 'file' is the path the suite was read from.
from_json_file(fs, i) ==
    [name |-> fs[i].name, codec |-> fs[i].codec, vectors |-> fs[i].vectors, file |-> i]

\* for file in files: the positions of the walk, in walk order
Walk(fs) == [i \in 1..Len(fs) |-> i]

\* os.path.splitext(file)[1] == '.json'
IsJson(f) == f.ext = "json"

\* A faulty _load_test_suites: the first exception ends the walk
_load_test_suites_abort(fs, ts) ==
    LET good == SelectSeq(Walk(fs), LAMBDA i : /\ IsJson(fs[i]) /\ fs[i].ok
                                          /\ \A j \in 1..i : IsJson(fs[j]) => fs[j].ok)
    IN  ts \o [k \in 1..Len(good) |-> from_json_file(fs, good[k])]

\* The body of _load_test_suites: self.test_suites after the walk
_load_test_suites(fs, ts) ==
    LET good == SelectSeq(Walk(fs), LAMBDA i : IsJson(fs[i]) /\ fs[i].ok)
    IN  ts \o [k \in 1..Len(good) |-> from_json_file(fs, good[k])]

\* The files the walk reports with 'Error loading test suite'
LoadErrors(fs) == SelectSeq(Walk(fs), LAMBDA i : IsJson(fs[i]) /\ ~fs[i].ok)

\* A faulty CacheHit: the method is not memoized
CacheHitNever(c) == FALSE

\* lru_cache: the body is skipped when the cache holds an entry for self
CacheHit(c) == c

----------------------------------------------------------------------------
(* Selection Resolver *)

\* A faulty _get_run_param: an empty selection is returned, not raised
_get_run_param_noraise(in_list, check_list, name) ==
    [raised |-> NoError,
     run |-> IF Truthy(in_list)
             THEN SelectSeq(check_list, LAMBDA x : InList(Lower(x.name), in_list.v))
             ELSE check_list]

\* A faulty _get_run_param: a name matches when a filter entry contains it
_get_run_param_substring(in_list, check_list, name) ==
    IF Truthy(in_list)
    THEN LET run == SelectSeq(check_list,
                        LAMBDA x : \E j \in DOMAIN in_list.v :
                                       IsSubstring(Lower(x.name), in_list.v[j]))
         IN  IF run = <<>>
             THEN [raised |-> [kind |-> "no_match", name |-> name, arg |-> in_list.v],
                   run |-> <<>>]
             ELSE [raised |-> NoError, run |-> run]
    ELSE [raised |-> NoError, run |-> check_list]

\* Fluster._get_run_param
_get_run_param(in_list, check_list, name) ==
    IF Truthy(in_list)
    THEN LET run == SelectSeq(check_list, LAMBDA x : InList(Lower(x.name), in_list.v))
         IN  IF run = <<>>
             THEN [raised |-> [kind |-> "no_match", name |-> name, arg |-> in_list.v],
                   run |-> <<>>]
             ELSE [raised |-> NoError, run |-> run]
    ELSE [raised |-> NoError, run |-> check_list]

\* [x.lower() for x in a] fails on a list of objects: they have no lower()
LowerFails(a) == Truthy(a) /\ a.kind = "objs"

\* if a: a = [x.lower() for x in a]
LowerAttr(a) == IF Truthy(a) THEN Names(LowerAll(a.v)) ELSE a

AttributeError == [kind |-> "attribute_error", name |-> "lower", arg |-> <<>>]

\* Fluster._normalize_context: the Context as the call leaves it, and the
\* exception it raises, if any
_normalize_context(c, ts, decs) ==
    IF LowerFails(c.test_suites) THEN [ctx |-> c, raised |-> AttributeError] ELSE
    LET c1 == [c EXCEPT !.test_suites = LowerAttr(c.test_suites)] IN
    IF LowerFails(c1.decoders) THEN [ctx |-> c1, raised |-> AttributeError] ELSE
    LET c2 == [c1 EXCEPT !.decoders = LowerAttr(c1.decoders)] IN
    IF LowerFails(c2.test_vectors) THEN [ctx |-> c2, raised |-> AttributeError] ELSE
    LET c3 == [c2 EXCEPT !.test_vectors = LowerAttr(c2.test_vectors)]
        s == _get_run_param(c3.test_suites, ts, "test suite")
    IN
    IF s.raised # NoError THEN [ctx |-> c3, raised |-> s.raised] ELSE
    LET c4 == [c3 EXCEPT !.test_suites = Objs(s.run)]
        d == _get_run_param(c4.decoders, decs, "decoders")
    IN
    IF d.raised # NoError THEN [ctx |-> c4, raised |-> d.raised] ELSE
    [ctx |-> [c4 EXCEPT !.decoders = Objs(d.run)], raised |-> NoError]

\* A faulty ReferenceFails: the empty selection is not checked
ReferenceFailsMany(c) == c.reference /\ Len(c.decoders.v) > 1

\* run_test_suites, lines 150-153: the reference-mode check
ReferenceFails(c) ==
    c.reference /\ (~Truthy(c.decoders) \/ Len(c.decoders.v) > 1)

\* [dec.name for dec in ctx.decoders]
DecNames(c) == [i \in DOMAIN c.decoders.v |-> c.decoders.v[i].name]

ReferenceError(c) == [kind |-> "reference", name |-> "decoders", arg |-> DecNames(c)]

----------------------------------------------------------------------------
(* TestSuite.run, as run_test_suites sees it *)

\* The value of a run that returns no result
NoResult ==
    [none |-> TRUE, name |-> <<>>, file |-> 0, by |-> <<>>, test_vectors |-> <<>>,
     test_vectors_success |-> 0]

\* TestSuite.test_vectors_success: the count of the vectors that ran with no error
test_vectors_success(tvs) == Cardinality({k \in DOMAIN tvs : tvs[k].errors = <<>>})

\* The suite's vectors the run is about: those the vector filter names, or all
EffectiveVectors(suite, tv) ==
    IF Truthy(tv)
    THEN SelectSeq(suite.vectors, LAMBDA v : InList(Lower(v), tv.v))
    ELSE suite.vectors

\* The vectors of a result: the effective vectors, each with the error list of
\* its run
RunVectors(eff, e) == [k \in 1..Len(eff) |-> [name |-> eff[k], errors |-> e[k]]]

\* What TestSuite.run may return: nothing, or a copy of the suite (its name, the
\* file it was loaded from) whose effective vectors each carry the error list of
\* their run by the decoder of the run's context, with the count of the
\* successful ones
RunOutcomes(suite, decoder, tv) ==
    LET eff == EffectiveVectors(suite, tv)
    IN  {NoResult} \cup
        { [none |-> FALSE, name |-> suite.name, file |-> suite.file, by |-> decoder.name,
           test_vectors |-> RunVectors(eff, e),
           test_vectors_success |-> test_vectors_success(RunVectors(eff, e))] :
          e \in [1..Len(eff) -> ErrorLists] }

\* if test_suite_res:
ResTruthy(r) == ~r.none

\* A faulty Success: the loop leaves after the first vector
SuccessFirstOnly(r) == r.test_vectors = <<>> \/ r.test_vectors[1].errors = <<>>

\* Lines 169-173: success is False iff some vector of the result has errors
Success(r) == \A k \in DOMAIN r.test_vectors : r.test_vectors[k].errors = <<>>

----------------------------------------------------------------------------
(* Inputs of the calls *)

SuiteFilters ==
    { None, Names(<< <<"a">> >>), Names(<< <<"A", "B">> >>), Names(<< <<"b">> >>) }

DecoderFilters ==
    { None, Names(<< <<"y">> >>), Names(<< <<"X">>, <<"X", "Y">> >>) }

VectorFilters == { None, Names(<< <<"V">> >>) }

\* class Context, without the attributes run_test_suites only passes on
Contexts ==
    [test_suites : SuiteFilters, decoders : DecoderFilters, test_vectors : VectorFilters,
     failfast : BOOLEAN, reference : BOOLEAN, summary : BOOLEAN]

NoContext ==
    [test_suites |-> None, decoders |-> None, test_vectors |-> None,
     failfast |-> FALSE, reference |-> FALSE, summary |-> FALSE]

----------------------------------------------------------------------------
(* The state machine *)

world == <<files, decoders>>
inst == <<test_suites, cached, scans, load_errors>>
locals == <<ctx, si, di, results, error>>
obs == <<invoked, summaries, printed, downloaded, request, any_failed, calls>>

Init ==
    /\ files \in SeqUpTo(FileDefs, MaxFiles)
    /\ decoders \in Registries
    /\ test_suites = <<>>
    /\ cached = FALSE
    /\ scans = 0
    /\ load_errors = <<>>
    /\ pc = "idle"
    /\ ctx = NoContext
    /\ si = 0
    /\ di = 0
    /\ results = <<>>
    /\ error = FALSE
    /\ raised = NoError
    /\ exit_status = 0
    /\ invoked = <<>>
    /\ summaries = <<>>
    /\ printed = <<>>
    /\ downloaded = <<>>
    /\ request = NoContext
    /\ any_failed = FALSE
    /\ calls = 0

\* A method of the instance can be called: no call is running, the process lives
CanCall == pc = "idle"

\* self._load_test_suites(), under lru_cache
Load ==
    IF CacheHit(cached)
    THEN UNCHANGED inst
    ELSE /\ test_suites' = _load_test_suites(files, test_suites)
         /\ load_errors' = load_errors \o LoadErrors(files)
         /\ cached' = TRUE
         /\ scans' = scans + 1

\* Fluster.list_test_suites
list_test_suites(filter) ==
    /\ CanCall
    /\ Load
    /\ LET low == LowerAttr(filter)
       IN  printed' = SelectSeq(test_suites',
                                LAMBDA t : Truthy(low) => InList(Lower(t.name), low.v))
    /\ pc' = "returned"
    /\ ctx' = NoContext /\ si' = 0 /\ di' = 0 /\ results' = <<>> /\ error' = FALSE
    /\ raised' = NoError
    /\ invoked' = <<>> /\ summaries' = <<>> /\ downloaded' = <<>>
    /\ request' = NoContext /\ any_failed' = FALSE
    /\ UNCHANGED <<world, exit_status>>

\* Fluster.download_test_suites
download_test_suites(filter) ==
    /\ CanCall
    /\ Load
    /\ downloaded' = IF Truthy(filter)
                     THEN SelectSeq(test_suites', LAMBDA t : InList(t.name, filter.v))
                     ELSE test_suites'
    /\ pc' = "returned"
    /\ ctx' = NoContext /\ si' = 0 /\ di' = 0 /\ results' = <<>> /\ error' = FALSE
    /\ raised' = NoError
    /\ invoked' = <<>> /\ summaries' = <<>> /\ printed' = <<>>
    /\ request' = NoContext /\ any_failed' = FALSE
    /\ UNCHANGED <<world, exit_status>>

\* Fluster.run_test_suites, lines 147-158: up to the loop
run_test_suites(c) ==
    /\ CanCall
    /\ Load
    /\ LET n == _normalize_context(c, test_suites', decoders)
       IN  IF n.raised # NoError
           THEN /\ ctx' = n.ctx /\ raised' = n.raised /\ pc' = "raised"
           ELSE IF ReferenceFails(n.ctx)
           THEN /\ ctx' = n.ctx /\ raised' = ReferenceError(n.ctx) /\ pc' = "raised"
           ELSE /\ ctx' = n.ctx /\ raised' = NoError /\ pc' = "suite"
    /\ si' = 0 /\ di' = 0 /\ results' = <<>> /\ error' = FALSE
    /\ invoked' = <<>> /\ summaries' = <<>> /\ printed' = <<>> /\ downloaded' = <<>>
    /\ request' = c /\ any_failed' = FALSE
    /\ UNCHANGED <<world, exit_status>>

\* A faulty CodecDiffers: the decoder's codec is compared with itself
CodecDiffersNever(decoder, suite) == decoder.codec # decoder.codec

\* Line 162: if decoder.codec != ctx.test_suite.codec
CodecDiffers(decoder, suite) == decoder.codec # suite.codec

\* A faulty FailFast: the flag is ignored
FailFastNever(c) == FALSE

\* A faulty FailFast: every failure exits at once
FailFastAlways(c) == TRUE

\* Line 176: if ctx.failfast
FailFast(c) == c.failfast

\* Line 159-160: the outer loop takes the next suite
NextSuite ==
    /\ pc = "suite"
    /\ si < Len(ctx.test_suites.v)
    /\ si' = si + 1
    /\ results' = <<>>
    /\ di' = 0
    /\ pc' = "decoder"
    /\ UNCHANGED <<world, inst, ctx, error, raised, exit_status, obs>>

\* Lines 161-163: the next decoder is of another codec
SkipDecoder ==
    /\ pc = "decoder"
    /\ di < Len(ctx.decoders.v)
    /\ CodecDiffers(ctx.decoders.v[di + 1], ctx.test_suites.v[si])
    /\ di' = di + 1
    /\ UNCHANGED <<world, inst, pc, ctx, si, results, error, raised, exit_status, obs>>

\* A faulty AppendResult: the result goes under the decoder that heads the list
AppendResultFirst(res_list, decoder, test_suite_res) ==
    Append(res_list, [decoder |-> IF res_list = <<>> THEN decoder ELSE res_list[1].decoder,
                      res |-> test_suite_res])

\* Line 168: results.append((decoder, test_suite_res))
AppendResult(res_list, decoder, test_suite_res) ==
    Append(res_list, [decoder |-> decoder, res |-> test_suite_res])

\* Lines 161-178: the next decoder runs the suite
RunDecoder ==
    /\ pc = "decoder"
    /\ di < Len(ctx.decoders.v)
    /\ LET decoder == ctx.decoders.v[di + 1]
           suite == ctx.test_suites.v[si]
       IN  /\ ~CodecDiffers(decoder, suite)
           /\ \E test_suite_res \in RunOutcomes(suite, decoder, ctx.test_vectors) :
                /\ invoked' = Append(invoked, [si |-> si, di |-> di + 1,
                                               suite |-> suite, decoder |-> decoder])
                /\ results' = IF ResTruthy(test_suite_res)
                              THEN AppendResult(results, decoder, test_suite_res)
                              ELSE results
                /\ IF ResTruthy(test_suite_res) /\ ~Success(test_suite_res)
                   THEN IF FailFast(ctx)
                        THEN pc' = "exited" /\ exit_status' = 1 /\ error' = error
                        ELSE pc' = pc /\ exit_status' = exit_status /\ error' = TRUE
                   ELSE pc' = pc /\ exit_status' = exit_status /\ error' = error
                /\ any_failed' = (any_failed \/ \E k \in DOMAIN test_suite_res.test_vectors :
                                                  Len(test_suite_res.test_vectors[k].errors) > 0)
    /\ di' = di + 1
    /\ UNCHANGED <<world, inst, ctx, si, raised, summaries, printed, downloaded, request, calls>>

\* A faulty SummaryDue: the results list is not looked at
SummaryDueUnchecked(c, res) == c.summary

\* Line 180: if ctx.summary and results
SummaryDue(c, res) == c.summary /\ res # <<>>

\* Lines 180-181: the inner loop is over
EndSuite ==
    /\ pc = "decoder"
    /\ di = Len(ctx.decoders.v)
    /\ summaries' = IF SummaryDue(ctx, results)
                    THEN Append(summaries, si)
                    ELSE summaries
    /\ pc' = "suite"
    /\ UNCHANGED <<world, inst, locals, raised, exit_status, invoked, printed, downloaded,
                   request, any_failed, calls>>

\* The marks of a cell of the summary
Pass == "pass"
Fail == "fail"

\* Line 198: test_suite.test_vectors[test_vector.name]
VectorByName(test_suite, name) ==
    test_suite.test_vectors[CHOOSE k \in DOMAIN test_suite.test_vectors :
                                test_suite.test_vectors[k].name = name]

\* A faulty _generate_summary: every column shows the vectors of the first result
_generate_summary_first(res_list) ==
    LET first == res_list[1].res
    IN  [test_suite_name |-> first.name,
         columns |-> [k \in DOMAIN res_list |-> res_list[k].decoder.name],
         rows |-> [v \in DOMAIN first.test_vectors |->
                     [name |-> first.test_vectors[v].name,
                      cells |-> [k \in DOMAIN res_list |->
                                   IF first.test_vectors[v].errors = <<>>
                                   THEN Pass ELSE Fail]]],
         totals |-> [k \in DOMAIN res_list |->
                       <<first.test_vectors_success, Len(first.test_vectors)>>]]

\* Fluster._generate_summary, lines 185-203: the table that is printed, as its
\* title, its decoder columns, its rows (a vector name and a mark per column) and
\* its totals (successful/all per column)
_generate_summary(res_list) ==
    LET first == res_list[1].res
        suites == [k \in DOMAIN res_list |-> res_list[k].res]
    IN  [test_suite_name |-> first.name,
         columns |-> [k \in DOMAIN res_list |-> res_list[k].decoder.name],
         rows |-> [v \in DOMAIN first.test_vectors |->
                     [name |-> first.test_vectors[v].name,
                      cells |-> [k \in DOMAIN suites |->
                                   IF VectorByName(suites[k], first.test_vectors[v].name).errors = <<>>
                                   THEN Pass ELSE Fail]]],
         totals |-> [k \in DOMAIN suites |->
                       <<suites[k].test_vectors_success, Len(suites[k].test_vectors)>>]]

\* Lines 182-183: the outer loop is over
EndRun ==
    /\ pc = "suite"
    /\ si = Len(ctx.test_suites.v)
    /\ IF error
       THEN pc' = "exited" /\ exit_status' = 1
       ELSE pc' = "returned" /\ exit_status' = exit_status
    /\ UNCHANGED <<world, inst, locals, raised, obs>>

\* The call is over, by return or by an exception the caller handles: its
\* locals and its Context are dropped
Return ==
    /\ pc \in {"returned", "raised"}
    /\ pc' = "idle"
    /\ ctx' = NoContext /\ si' = 0 /\ di' = 0 /\ results' = <<>> /\ error' = FALSE
    /\ raised' = NoError
    /\ invoked' = <<>> /\ summaries' = <<>> /\ printed' = <<>> /\ downloaded' = <<>>
    /\ request' = NoContext /\ any_failed' = FALSE
    /\ UNCHANGED <<world, inst, exit_status, calls>>

\* A specification that counts the calls made on the instance bounds them
Counted == calls < MaxCalls /\ calls' = calls + 1

Next ==
    \/ \E f \in SuiteFilters : list_test_suites(f) /\ UNCHANGED calls
    \/ \E f \in SuiteFilters : download_test_suites(f) /\ UNCHANGED calls
    \/ \E c \in Contexts : run_test_suites(c) /\ UNCHANGED calls
    \/ NextSuite
    \/ SkipDecoder
    \/ RunDecoder
    \/ EndSuite
    \/ EndRun
    \/ Return

Spec == Init /\ [][Next]_vars

----------------------------------------------------------------------------
(* Sequences of calls on one instance, counted *)

\* The Contexts of the counted calls: default selection of decoders and vectors
CallContexts ==
    {c \in Contexts : /\ c.decoders = None /\ c.test_vectors = None
                      /\ ~c.reference /\ ~c.summary}

NextCalls ==
    \/ \E f \in SuiteFilters : list_test_suites(f) /\ Counted
    \/ \E f \in SuiteFilters : download_test_suites(f) /\ Counted
    \/ \E c \in CallContexts : run_test_suites(c) /\ Counted
    \/ NextSuite
    \/ SkipDecoder
    \/ RunDecoder
    \/ EndSuite
    \/ EndRun
    \/ Return

SpecCalls == Init /\ [][NextCalls]_vars

----------------------------------------------------------------------------
(* Selection resolution alone, over more names *)

MaxFilter == 2
MaxSelFiles == 3

SelNames == { <<"A">>, <<"a">>, <<"a", "b">>, <<"A", "B">> }

SelSuiteDefs ==
    { [ext |-> "json", ok |-> TRUE, name |-> n, codec |-> "H264",
       vectors |-> << <<"w">> >>] : n \in SelNames }

\* Contexts that filter the suites or the decoders
SelContexts ==
    {c \in [test_suites : {None} \cup {Names(l) : l \in SeqUpTo(SelNames, MaxFilter)},
            decoders : DecoderFilters, test_vectors : {None},
            failfast : {FALSE}, reference : {FALSE}, summary : {FALSE}] :
        c.test_suites = None \/ c.decoders = None}

InitSel ==
    /\ files \in SeqUpTo(SelSuiteDefs, MaxSelFiles)
    /\ decoders \in Registries
    /\ test_suites = <<>>
    /\ cached = FALSE
    /\ scans = 0
    /\ load_errors = <<>>
    /\ pc = "idle"
    /\ ctx = NoContext
    /\ si = 0
    /\ di = 0
    /\ results = <<>>
    /\ error = FALSE
    /\ raised = NoError
    /\ exit_status = 0
    /\ invoked = <<>>
    /\ summaries = <<>>
    /\ printed = <<>>
    /\ downloaded = <<>>
    /\ request = NoContext
    /\ any_failed = FALSE
    /\ calls = 0

NextSel ==
    \/ \E c \in SelContexts : run_test_suites(c) /\ UNCHANGED calls
    \/ Return

SpecSel == InitSel /\ [][NextSel]_vars

----------------------------------------------------------------------------
(* Vocabulary of the properties *)

Last(l) == l[Len(l)]

\* The current call is a run_test_suites call that passed selection resolution
\* and the reference-mode check
Resolved ==
    /\ pc \in {"suite", "decoder", "returned", "exited"}
    /\ ctx.test_suites.kind = "objs"
    /\ ctx.decoders.kind = "objs"

\* The call is over
Over == pc \in {"returned", "exited"}

\* The entries of list that a name filter asks for: all if the filter is absent or
\* empty, else those whose name equals a filter entry, case ignored
Asked(filter, list) ==
    {i \in DOMAIN list :
        Truthy(filter) => \E j \in DOMAIN filter.v : Lower(list[i].name) = Lower(filter.v[j])}

\* A non-empty filter that matches nothing of list
NoMatch(filter, list) == Truthy(filter) /\ Asked(filter, list) = {}

\* The k-th smallest element of a set of numbers
Nth(S, k) == CHOOSE i \in S : Cardinality({j \in S : j < i}) = k - 1

\* sel holds exactly the entries of list the filter asks for, in list's order, each once
IsSelection(sel, filter, list) ==
    /\ Len(sel) = Cardinality(Asked(filter, list))
    /\ \A k \in DOMAIN sel : sel[k] = list[Nth(Asked(filter, list), k)]

\* Some vector of a result has one or more errors
Failing(r) == \E k \in DOMAIN r.test_vectors : Len(r.test_vectors[k].errors) > 0

\* The (suite, decoder) positions of the selection, in suite order then decoder
\* order, whose codecs agree
MatchingPairs ==
    LET ns == Len(ctx.test_suites.v)
        nd == Len(ctx.decoders.v)
        all == [k \in 1..(ns * nd) |-> <<((k - 1) \div nd) + 1, ((k - 1) % nd) + 1>>]
    IN  SelectSeq(all, LAMBDA p : ctx.test_suites.v[p[1]].codec = ctx.decoders.v[p[2]].codec)

\* The (suite, decoder) positions TestSuite.run was called for, in call order
InvokedPairs == [k \in DOMAIN invoked |-> <<invoked[k].si, invoked[k].di>>]

IsPrefix(a, b) == Len(a) <= Len(b) /\ \A k \in DOMAIN a : a[k] = b[k]

WellFormed(i) == files[i].ext = "json" /\ files[i].ok
IsMalformed(i) == files[i].ext = "json" /\ ~files[i].ok

----------------------------------------------------------------------------
(* Properties *)

\* C1: TestSuite.run is called only for a selected suite and a selected decoder of
\* the same codec, and every entry of the results list (the list handed to the
\* summary) comes from such a call on the current suite.
C1_CodecMatch ==
    /\ \A k \in DOMAIN invoked :
         /\ invoked[k].decoder.codec = invoked[k].suite.codec
         /\ invoked[k].suite = ctx.test_suites.v[invoked[k].si]
         /\ invoked[k].decoder = ctx.decoders.v[invoked[k].di]
    /\ \A k \in DOMAIN results :
         /\ results[k].decoder.codec = ctx.test_suites.v[si].codec
         /\ \E j \in DOMAIN invoked :
              invoked[j].si = si /\ invoked[j].decoder = results[k].decoder

\* A summary was generated for a suite of which a selected decoder of another
\* codec was skipped
C1_Witness ==
    /\ pc = "suite"
    /\ summaries # <<>> /\ Last(summaries) = si
    /\ results # <<>>
    /\ \E d \in DOMAIN ctx.decoders.v : ctx.decoders.v[d].codec # ctx.test_suites.v[si].codec

\* C2: a non-empty suite filter that matches no loaded suite, or a non-empty decoder
\* filter that matches no registered decoder, makes run_test_suites raise an error
\* that names the filter, and no TestSuite.run was called.
C2_NoMatchRaises ==
    LET s == NoMatch(request.test_suites, test_suites)
        d == NoMatch(request.decoders, decoders)
    IN  (pc # "idle" /\ (s \/ d)) =>
            /\ pc = "raised"
            /\ raised.kind = "no_match"
            /\ raised.name = (IF s THEN "test suite" ELSE "decoders")
            /\ raised.arg = LowerAll(IF s THEN request.test_suites.v ELSE request.decoders.v)
            /\ invoked = <<>>

\* The decoder filter matched nothing although suites and decoders were there
C2_Witness ==
    /\ pc = "raised"
    /\ raised.kind = "no_match" /\ raised.name = "decoders"
    /\ test_suites # <<>> /\ decoders # <<>>
    /\ \E i \in DOMAIN test_suites, j \in DOMAIN decoders :
         test_suites[i].codec = decoders[j].codec

\* C3: in reference mode, once the filters are resolved, the call goes on iff
\* exactly one decoder is selected; otherwise it raises an error listing the names
\* of all selected decoders, and no TestSuite.run was called.
C3_Reference ==
    (/\ pc # "idle"
     /\ request.reference
     /\ ~NoMatch(request.test_suites, test_suites)
     /\ ~NoMatch(request.decoders, decoders)) =>
        LET asked == Asked(request.decoders, decoders)
        IN  IF Cardinality(asked) = 1
            THEN pc # "raised"
            ELSE /\ pc = "raised"
                 /\ raised.kind = "reference"
                 /\ Len(raised.arg) = Cardinality(asked)
                 /\ \A k \in DOMAIN raised.arg : raised.arg[k] = decoders[Nth(asked, k)].name
                 /\ invoked = <<>>

\* Reference mode was refused with two or more decoders selected
C3_Witness ==
    /\ pc = "raised"
    /\ raised.kind = "reference"
    /\ Len(raised.arg) >= 2
    /\ test_suites # <<>>

\* C4: with failfast, the run that returns a vector with errors is the last one
\* called: the process has exited with status 1 at once, no failure is carried in
\* the error flag, and the failing result is the last of the results list.
C4_FailFast ==
    (Resolved /\ request.failfast) =>
        /\ ~error
        /\ any_failed <=> pc = "exited"
        /\ pc = "exited" => exit_status = 1
        /\ \A k \in DOMAIN results : Failing(results[k].res) =>
              /\ pc = "exited"
              /\ k = Len(results)
              /\ Last(invoked).si = si /\ Last(invoked).di = di
              /\ Last(invoked).decoder = results[k].decoder

\* The process exited under failfast while a decoder of the same suite and a
\* later suite with a decoder of its codec were still to run
C4_Witness ==
    /\ pc = "exited"
    /\ request.failfast
    /\ \E d \in (di + 1)..Len(ctx.decoders.v) :
         ctx.decoders.v[d].codec = ctx.test_suites.v[si].codec
    /\ \E s \in (si + 1)..Len(ctx.test_suites.v) : \E d \in DOMAIN ctx.decoders.v :
         ctx.decoders.v[d].codec = ctx.test_suites.v[s].codec

\* C5: without failfast, the calls of TestSuite.run made so far are a prefix of the
\* codec-matching selected pairs in suite order then decoder order; the process does
\* not exit before the call is over, when all of them were called, once each, and
\* then it exits, with status 1, iff some run returned a vector with errors.
C5_NoFailFast ==
    (Resolved /\ ~request.failfast) =>
        /\ IsPrefix(InvokedPairs, MatchingPairs)
        /\ ~Over => exit_status = 0
        /\ Over => /\ InvokedPairs = MatchingPairs
                   /\ pc = "exited" <=> any_failed
                   /\ exit_status = (IF any_failed THEN 1 ELSE 0)

\* Without failfast a run of an earlier suite failed, the runs of a later suite
\* were made all the same, and the process exited at the end
C5_Witness ==
    /\ pc = "exited"
    /\ ~request.failfast
    /\ si >= 2
    /\ results # <<>>
    /\ \A k \in DOMAIN results : ~Failing(results[k].res)

\* C6: for a call that passed selection resolution, sys.exit is called, with status
\* 1, iff some run of the call returned a vector with one or more errors; the call
\* that ends otherwise returns, and so does the call that ran no pair.
C6_ExitStatus ==
    Resolved =>
        /\ exit_status # 0 <=> pc = "exited"
        /\ Over => (exit_status # 0 <=> any_failed)
        /\ ~request.failfast => (error <=> any_failed)
        /\ invoked = <<>> => exit_status = 0

\* The process exited because of a result whose first vector passed and whose
\* second vector had errors
C6_Witness ==
    /\ pc = "exited"
    /\ results # <<>>
    /\ Len(Last(results).res.test_vectors) = 2
    /\ Last(results).res.test_vectors[1].errors = <<>>
    /\ Last(results).res.test_vectors[2].errors # <<>>

\* C7: when a non-empty vector filter matches no vector of the selected suites, no
\* TestSuite.run is called (the run fails first).
C7_VectorFilterFails ==
    (/\ Resolved
     /\ Truthy(request.test_vectors)
     /\ \A s \in DOMAIN ctx.test_suites.v :
          \A v \in DOMAIN ctx.test_suites.v[s].vectors :
             \A j \in DOMAIN request.test_vectors.v :
                Lower(ctx.test_suites.v[s].vectors[v]) # Lower(request.test_vectors.v[j]))
    => invoked = <<>>

\* C8: selection resolution leaves in the Context exactly the suites, and exactly
\* the decoders, whose lowercased name equals a lowercased filter entry, in list
\* order and each once, or all of them when the filter is absent or empty.
C8_Selection ==
    pc = "suite" =>
        /\ IsSelection(ctx.test_suites.v, request.test_suites, test_suites)
        /\ IsSelection(ctx.decoders.v, request.decoders, decoders)

\* Two suites whose names differ in case only were both selected, and a suite whose
\* name is a substring or a superstring of a filter entry was not
C8_Witness ==
    /\ pc = "suite"
    /\ Truthy(request.test_suites)
    /\ \E i, j \in DOMAIN ctx.test_suites.v :
         /\ ctx.test_suites.v[i].name # ctx.test_suites.v[j].name
         /\ Lower(ctx.test_suites.v[i].name) = Lower(ctx.test_suites.v[j].name)
    /\ \E i \in DOMAIN test_suites :
         /\ i \notin Asked(request.test_suites, test_suites)
         /\ \E j \in DOMAIN request.test_suites.v :
              \/ IsSubstring(Lower(test_suites[i].name), Lower(request.test_suites.v[j]))
              \/ IsSubstring(Lower(request.test_suites.v[j]), Lower(test_suites[i].name))

\* C9: once loaded, the suite list holds every well-formed definition, whether it
\* comes before or after a malformed one, and nothing else; every malformed
\* definition was reported and none was loaded.
C9_LoaderSkips ==
    /\ ~cached => test_suites = <<>>
    /\ cached =>
         /\ Len(test_suites) = Cardinality({i \in DOMAIN files : WellFormed(i)})
         /\ \A i \in DOMAIN files : WellFormed(i) =>
              \E k \in DOMAIN test_suites :
                 test_suites[k].file = i /\ test_suites[k].name = files[i].name
         /\ Len(load_errors) = Cardinality({i \in DOMAIN files : IsMalformed(i)})
         /\ \A i \in DOMAIN files : IsMalformed(i) =>
              /\ InList(i, load_errors)
              /\ \A k \in DOMAIN test_suites : test_suites[k].file # i

\* The catalogue was loaded from a directory where a malformed definition precedes
\* a well-formed one
C9_Witness ==
    /\ cached
    /\ \E i, j \in DOMAIN files : i < j /\ IsMalformed(i) /\ WellFormed(j)

\* C10: once the definitions directory was scanned, no call scans it again and no
\* call changes the loaded suite list.
C10_LoadOnce ==
    [][scans >= 1 => (scans' = scans /\ test_suites' = test_suites)]_vars

\* Two calls were made on an instance that loaded at least one suite
C10_Witness ==
    /\ calls >= 2
    /\ scans = 1
    /\ test_suites # <<>>

\* C11: after loading, no two suites of the loaded list have the same name, even
\* when two definition files declare the same suite name.
C11_UniqueNames ==
    \A j, k \in DOMAIN test_suites :
        test_suites[j].name = test_suites[k].name => j = k

\* C12: _generate_summary is called for a suite only when the summary was asked
\* for and a run of that suite returned a result, at most once per suite, and
\* after all the selected decoders had their turn on that suite.
C12_SummaryGuard ==
    /\ summaries # <<>> => request.summary
    /\ \A j, k \in DOMAIN summaries : j < k => summaries[j] < summaries[k]
    /\ \A k \in DOMAIN summaries :
         /\ summaries[k] \in 1..si
         /\ summaries[k] = si =>
              /\ pc \in {"suite", "returned", "exited"}
              /\ di = Len(ctx.decoders.v)
              /\ results # <<>>
              /\ \A r \in DOMAIN results :
                   \E j \in DOMAIN invoked :
                      invoked[j].si = si /\ invoked[j].decoder = results[r].decoder

\* The summary of the second suite was generated after the first suite, all of
\* whose runs returned nothing, got none
C12_Witness ==
    /\ request.summary
    /\ summaries = <<2>>
    /\ si = 2
    /\ \E j \in DOMAIN invoked : invoked[j].si = 1

\* The call generated the summary of the suite it is at: results is the list that
\* was handed to _generate_summary
Summarised == summaries # <<>> /\ Last(summaries) = si

\* The names of the vectors of a result
VectorNames(r) == {r.test_vectors[k].name : k \in DOMAIN r.test_vectors}

\* The vectors named n of a result that have no error
CleanVectors(r) == {k \in DOMAIN r.test_vectors : Len(r.test_vectors[k].errors) = 0}

\* C13: the summary of one suite's results has one column per decoder, in the
\* order of the results, and one row per vector; the cell of a vector and a decoder
\* is the pass mark iff the vector has no errors in that decoder's result; the
\* totals row gives, per decoder, the number of its vectors without errors over the
\* number of its vectors.
C13_SummaryTable ==
    Summarised =>
        LET out == _generate_summary(results)
        IN  /\ Len(results) >= 1
            /\ Len(out.columns) = Len(results)
            /\ \A d \in DOMAIN results : out.columns[d] = results[d].decoder.name
            /\ Len(out.rows) = Cardinality(VectorNames(results[1].res))
            /\ {out.rows[v].name : v \in DOMAIN out.rows} = VectorNames(results[1].res)
            /\ \A v \in DOMAIN out.rows :
                 /\ Len(out.rows[v].cells) = Len(results)
                 /\ \A d \in DOMAIN results :
                      /\ out.rows[v].cells[d] \in {Pass, Fail}
                      /\ out.rows[v].cells[d] = Pass <=>
                            \E k \in CleanVectors(results[d].res) :
                               results[d].res.test_vectors[k].name = out.rows[v].name
            /\ Len(out.totals) = Len(results)
            /\ \A d \in DOMAIN results :
                 out.totals[d] = <<Cardinality(CleanVectors(results[d].res)),
                                   Len(results[d].res.test_vectors)>>

\* A summary of two decoders over two vectors was generated, the first decoder
\* passing both (2/2) and the second failing one (1/2)
C13_Witness ==
    /\ Summarised
    /\ Len(results) = 2
    /\ _generate_summary(results).totals = << <<2, 2>>, <<1, 2>> >>
    /\ \E v \in 1..2 : _generate_summary(results).rows[v].cells = <<Pass, Fail>>

\* C14: when a failure under failfast ends the process, the failing run had
\* returned its complete result and the work done for the current suite is
\* accounted for before the exit: its results are recorded and, when the summary
\* was asked for, the summary of the current suite was generated.
C14_DrainBeforeExit ==
    (pc = "exited" /\ request.failfast) =>
        /\ results # <<>>
        /\ Last(results).decoder = Last(invoked).decoder
        /\ Len(Last(results).res.test_vectors) =
               Len(EffectiveVectors(ctx.test_suites.v[si], ctx.test_vectors))
        /\ request.summary => Summarised

\* C15: every entry (decoder, result) of the results list was produced by running
\* that decoder, a selected one, on the suite the outer loop is at; the list has at
\* most one entry per decoder and is empty when a suite starts; all its results
\* have the same vector names, so the summary finds every vector in every result.
C15_ResultsAttribution ==
    /\ (pc = "decoder" /\ di = 0) => results = <<>>
    /\ \A k \in DOMAIN results :
         /\ si \in DOMAIN ctx.test_suites.v
         /\ results[k].res.by = results[k].decoder.name
         /\ results[k].res.file = ctx.test_suites.v[si].file
         /\ results[k].res.name = ctx.test_suites.v[si].name
         /\ \E j \in DOMAIN invoked :
              /\ invoked[j].si = si
              /\ invoked[j].di <= di
              /\ invoked[j].decoder = results[k].decoder
              /\ ctx.decoders.v[invoked[j].di] = results[k].decoder
         /\ VectorNames(results[k].res) = VectorNames(results[1].res)
         /\ Len(results[k].res.test_vectors) = Cardinality(VectorNames(results[1].res))
    /\ \A j, k \in DOMAIN results : results[j].decoder = results[k].decoder => j = k

\* Two decoders have results for the second suite, after runs of the first suite
\* had left results too
C15_Witness ==
    /\ si = 2
    /\ Len(results) = 2
    /\ \E j \in DOMAIN invoked : invoked[j].si = 1
    /\ error
    /\ \A k \in DOMAIN results : Success(results[k].res)

\* A Context attribute holds what another holds: the same kind of value and, then,
\* the same value
SameAttr(a, b) == a.kind = b.kind /\ a.v = b.v

\* The catalogue is what one walk of the definitions directory loads
CatalogueIntact == test_suites = _load_test_suites(files, <<>>)

\* C16: when run_test_suites raises a configuration error (a filter that matches
\* nothing, a reference run without exactly one decoder), the caller's Context
\* holds the suite, decoder and vector filters and the flags it held before the
\* call, and the loaded catalogue and the decoder registry are intact.
C16_NoSideEffects ==
    pc = "raised" =>
        /\ SameAttr(ctx.test_suites, request.test_suites)
        /\ SameAttr(ctx.decoders, request.decoders)
        /\ SameAttr(ctx.test_vectors, request.test_vectors)
        /\ ctx.failfast = request.failfast
        /\ ctx.reference = request.reference
        /\ ctx.summary = request.summary
        /\ CatalogueIntact
        /\ decoders \in Registries

====
